---- MODULE Spec2Model ----
(***************************************************************************)
(* A model of leptos_config (src/leptos_config/src/lib.rs): the RustEnv    *)
(* classifier and its three string conversions, the RenderOptions builder  *)
(* with its defaults, and write_to_file, which formats the options and     *)
(* writes them to ./.leptos.kdl.                                           *)
(*                                                                         *)
(* Rust strings are TLA+ strings; Option<T> is a sequence of length <= 1.  *)
(* Three specifications share the module:                                  *)
(*   SpecEnv   the conversions applied to a drawn lookup result,           *)
(*   Spec      one process: build, clone, write_to_file (sequential),      *)
(*   SpecConc  several writers calling write_to_file on the same file.     *)
(***************************************************************************)
EXTENDS Integers, Sequences, FiniteSets, TLC

VARIABLES
    envInput,       \* SpecEnv: a Result<String, VarError>, as env::var returns it
    envCall,        \* SpecEnv: the conversion applied last ("none" before any)
    envResult,      \* SpecEnv: what that conversion produced
    status,         \* Spec: "start" | "running" | "panicked"
    options,        \* Spec: Option<RenderOptions>, the value the builder produced
    cloned,         \* Spec: Option<RenderOptions>, a copy made by Clone
    file,           \* ./.leptos.kdl: [exists, data]
    lastCall,       \* Spec: the operation executed last and how it ended
    writes,         \* Spec: number of write_to_file calls that returned
    pc,             \* SpecConc: each writer's position in fs::write
    writerOptions,  \* SpecConc: each writer's RenderOptions value
    lastWriter      \* SpecConc: the writer whose write step ran last (0: none)

envVars == <<envInput, envCall, envResult>>
progVars == <<status, options, cloned, lastCall, writes>>
concVars == <<pc, writerOptions, lastWriter>>
vars == <<envInput, envCall, envResult, status, options, cloned, file,
          lastCall, writes, pc, writerOptions, lastWriter>>

----------------------------------------------------------------------------
(* Bounds *)

\* Longest string drawn over EnvAlphabet as a conversion input.
MaxLen == 3
\* Most write_to_file calls one process makes.
MaxWrites == 3
\* Number of concurrent writers.
NumWriters == 2

----------------------------------------------------------------------------
(* Strings *)

UpperAscii == "ABCDEFGHIJKLMNOPQRSTUVWXYZ"
LowerAscii == "abcdefghijklmnopqrstuvwxyz"

CharAt(s, i) == SubSeq(s, i, i)

\* char::to_lowercase on the ASCII range
LowerChar(c) ==
    IF \E i \in 1..Len(UpperAscii) : CharAt(UpperAscii, i) = c
    THEN CharAt(LowerAscii, CHOOSE i \in 1..Len(UpperAscii) : CharAt(UpperAscii, i) = c)
    ELSE c

UpperChar(c) ==
    IF \E i \in 1..Len(LowerAscii) : CharAt(LowerAscii, i) = c
    THEN CharAt(UpperAscii, CHOOSE i \in 1..Len(LowerAscii) : CharAt(LowerAscii, i) = c)
    ELSE c

RECURSIVE LowerFrom(_, _)
LowerFrom(s, i) ==
    IF i > Len(s) THEN "" ELSE LowerChar(CharAt(s, i)) \o LowerFrom(s, i + 1)

\* A conversion that forgets to lower-case its input.
to_lowercase_skipped(s) == s

\* str::to_lowercase
to_lowercase(s) == LowerFrom(s, 1)

----------------------------------------------------------------------------
(* RustEnv and its conversions *)

PROD == "PROD"
DEV == "DEV"
RustEnv == {PROD, DEV}

\* A Default that picks the other variant.
RustEnv_default_dev == DEV

\* impl Default for RustEnv
RustEnv_default == PROD

Ok(v) == [kind |-> "Ok", val |-> v]
Err(e) == [kind |-> "Err", val |-> e]
Value(v) == [kind |-> "Value", val |-> v]
Panic(msg) == [kind |-> "Panic", val |-> msg]

\* the panic message (its back quotes left out)
NotRecognizedMsg == "Environment var is not recognized. Maybe try dev or prod"

\* impl FromStr for RustEnv: Result<RustEnv, ()>, never Err
from_str(input) ==
    LET sanitized == to_lowercase(input) IN
    CASE sanitized = "dev" -> Ok(DEV)
      [] sanitized = "development" -> Ok(DEV)
      [] sanitized = "prod" -> Ok(PROD)
      [] sanitized = "production" -> Ok(PROD)
      [] OTHER -> Ok(PROD)

\* impl From<&str> for RustEnv: a RustEnv, or a panic
from_ref_str(str) ==
    LET sanitized == to_lowercase(str) IN
    CASE sanitized = "dev" -> Value(DEV)
      [] sanitized = "development" -> Value(DEV)
      [] sanitized = "prod" -> Value(PROD)
      [] sanitized = "production" -> Value(PROD)
      [] OTHER -> Panic(NotRecognizedMsg)

\* A lookup conversion that treats a failed lookup like an unrecognized value.
from_var_result_strict(input) ==
    IF input.kind = "Ok" THEN from_ref_str(input.val) ELSE Panic(NotRecognizedMsg)

\* impl From<&Result<String, VarError>> for RustEnv
from_var_result(input) ==
    IF input.kind = "Ok"
    THEN LET sanitized == to_lowercase(input.val) IN
         CASE sanitized = "dev" -> Value(DEV)
           [] sanitized = "development" -> Value(DEV)
           [] sanitized = "prod" -> Value(PROD)
           [] sanitized = "production" -> Value(PROD)
           [] OTHER -> Panic(NotRecognizedMsg)
    ELSE Value(PROD)

----------------------------------------------------------------------------
(* Inputs of the conversions *)

Recognized == {"dev", "development", "prod", "production"}

\* Every upper/lower-case spelling of the first n characters of w.
RECURSIVE Spellings(_, _)
Spellings(w, n) ==
    IF n = 0 THEN {""}
    ELSE { p \o c : p \in Spellings(w, n - 1),
                    c \in {LowerChar(CharAt(w, n)), UpperChar(CharAt(w, n))} }

RecognizedSpellings == UNION { Spellings(w, Len(w)) : w \in Recognized }

EnvAlphabet == {"d", "e", "v", "D", "E", "V"}

RECURSIVE StringsUpTo(_)
StringsUpTo(n) ==
    IF n = 0 THEN {""}
    ELSE StringsUpTo(n - 1) \cup { p \o c : p \in StringsUpTo(n - 1), c \in EnvAlphabet }

OtherStrings == {"staging", "test", "Developmen", "production ", " dev", "PRODUCTIONS", "1"}

EnvStrings == RecognizedSpellings \cup StringsUpTo(MaxLen) \cup OtherStrings

\* std::env::VarError
VarError == {"NotPresent", "NotUnicode"}

LookupResults == { Ok(s) : s \in EnvStrings } \cup { Err(e) : e \in VarError }

NoResult == [kind |-> "None", val |-> ""]

----------------------------------------------------------------------------
(* RenderOptions, its builder and its Debug/Display renderings *)

\* SocketAddr::from(([127,0,0,1], 3000)); addresses are IPv4 throughout
socket_address_default == [ip |-> <<127, 0, 0, 1>>, port |-> 3000]

\* #[builder(default = 3001)]
reload_port_default == 3001

Digit(d) == CharAt("0123456789", d + 1)

\* Display/Debug of an unsigned integer: decimal, no padding
RECURSIVE Decimal(_)
Decimal(n) == IF n < 10 THEN Digit(n) ELSE Decimal(n \div 10) \o Digit(n % 10)

\* A Debug rendering that spells the variant out.
DebugRustEnv_long(e) == IF e = DEV THEN "Development" ELSE "Production"

\* #[derive(Debug)] on RustEnv: the name of the variant
DebugRustEnv(e) == IF e = DEV THEN "DEV" ELSE "PROD"

\* Debug of SocketAddr (V4): a.b.c.d:port
DebugSocketAddr(a) ==
    Decimal(a.ip[1]) \o "." \o Decimal(a.ip[2]) \o "." \o Decimal(a.ip[3]) \o "."
        \o Decimal(a.ip[4]) \o ":" \o Decimal(a.port)

Header ==
    "// This file is auto-generated. Changing it will have no effect on leptos. Change these by changing RenderOptions and rerunning"

\* the format! of write_to_file
format_options(self) ==
    Header \o "\n"
        \o "RenderOptions {\n"
        \o "    pkg-path \"" \o self.pkg_path \o "\"\n"
        \o "    environment \"" \o DebugRustEnv(self.environment) \o "\"\n"
        \o "    socket-address \"" \o DebugSocketAddr(self.socket_address) \o "\"\n"
        \o "    reload-port " \o Decimal(self.reload_port) \o "\n"
        \o "}\n"

\* #[builder(setter(into))] on environment: Into<RustEnv> of what the caller passes
EnvInto(arg) ==
    CASE arg.kind = "RustEnv" -> Value(arg.val)
      [] arg.kind = "Str" -> from_ref_str(arg.val)
      [] arg.kind = "VarResult" -> from_var_result(arg.val)

\* the environment field of the builder: the default unless the setter was called
builder_environment(arg) ==
    IF arg = <<>> THEN Value(RustEnv_default) ELSE EnvInto(arg[1])

\* RenderOptions::builder()...build(), once the environment is converted
build(args, env) ==
    [pkg_path |-> args.pkg_path,
     environment |-> env,
     socket_address |-> IF args.socket_address = <<>> THEN socket_address_default
                        ELSE args.socket_address[1],
     reload_port |-> IF args.reload_port = <<>> THEN reload_port_default
                     ELSE args.reload_port[1]]

PkgPaths == {"/pkg/app", "/p", "/pkg/my app-2.0"}

EnvArgs ==
    {<<>>}
        \cup { <<[kind |-> "RustEnv", val |-> e]>> : e \in RustEnv }
        \cup { <<[kind |-> "Str", val |-> s]>> : s \in {"development", "Prod", "staging"} }
        \cup { <<[kind |-> "VarResult", val |-> r]>> :
                   r \in {Ok("DEV"), Ok(""), Err("NotPresent")} }

AddrArgs == {<<>>, <<[ip |-> <<0, 0, 0, 0>>, port |-> 8080]>>}

PortArgs == {<<>>, <<80>>, <<35729>>}

BuildArgs ==
    [pkg_path : PkgPaths, environment : EnvArgs, socket_address : AddrArgs,
     reload_port : PortArgs]

----------------------------------------------------------------------------
(* The file and std::fs::write *)

NoFile == [exists |-> FALSE, data |-> ""]

\* An open that creates the file but keeps what it holds.
truncate_kept(f) == [exists |-> TRUE, data |-> f.data]

\* File::create: O_CREAT | O_TRUNC
truncate(f) == [exists |-> TRUE, data |-> ""]

\* A write positioned at the end of the file.
write_at_end(data, bytes) == data \o bytes

\* write(2) of bytes at offset 0 of a file holding data
write_at_start(data, bytes) == bytes \o SubSeq(data, Len(bytes) + 1, Len(data))

\* How the operating system may answer: the open fails, or it succeeds and
\* `written` bytes reach the file before write_all returns (all of them, or
\* fewer and then an error).
IoOutcomes(contents) ==
    {[open_ok |-> FALSE, written |-> 0]}
        \cup { [open_ok |-> TRUE, written |-> k] :
                   k \in {0, Len(contents) \div 2, Len(contents)} }

IoSucceeded(contents, io) == io.open_ok /\ io.written = Len(contents)

\* A write that opens the file for appending.
fs_write_append(f, contents, io) ==
    IF ~io.open_ok THEN f
    ELSE [exists |-> TRUE, data |-> f.data \o SubSeq(contents, 1, io.written)]

\* fs::write(path, contents): File::create(path)?.write_all(contents)
fs_write(f, contents, io) ==
    IF ~io.open_ok THEN f
    ELSE [exists |-> TRUE,
          data |-> write_at_start(truncate(f).data, SubSeq(contents, 1, io.written))]

\* What ./.leptos.kdl may hold when the process starts: nothing, an empty or
\* short file, something longer than any snapshot, or an earlier run's snapshot.
PriorValues ==
    {[pkg_path |-> "/pkg/app", environment |-> PROD,
      socket_address |-> socket_address_default, reload_port |-> reload_port_default],
     [pkg_path |-> "/p", environment |-> DEV,
      socket_address |-> socket_address_default, reload_port |-> 80],
     [pkg_path |-> "/pkg/my app-2.0", environment |-> PROD,
      socket_address |-> [ip |-> <<0, 0, 0, 0>>, port |-> 8080], reload_port |-> 35729]}

PriorFiles ==
    {NoFile, [exists |-> TRUE, data |-> ""], [exists |-> TRUE, data |-> "x"],
     [exists |-> TRUE, data |-> Header \o Header \o Header]}
        \cup { [exists |-> TRUE, data |-> format_options(v)] : v \in PriorValues }

----------------------------------------------------------------------------
(* Spec: one process that builds a RenderOptions value, may clone it, and  *)
(* calls write_to_file on it. A panic ends the process.                    *)

NoCall ==
    [op |-> "none", args |-> <<>>, outcome |-> "none", ioFailed |-> FALSE,
     before |-> NoFile]

EnvIdle == envInput = Err("NotPresent") /\ envCall = "none" /\ envResult = NoResult
ConcIdle == pc = <<>> /\ writerOptions = <<>> /\ lastWriter = 0
ProgIdle ==
    status = "start" /\ options = <<>> /\ cloned = <<>> /\ lastCall = NoCall /\ writes = 0

Init == file \in PriorFiles /\ ProgIdle /\ EnvIdle /\ ConcIdle

\* RenderOptions::builder().pkg_path(..)[.environment(..)][.socket_address(..)]
\* [.reload_port(..)].build(); the environment setter panics when its Into does
Build ==
    /\ status = "start"
    /\ \E args \in BuildArgs :
        LET env == builder_environment(args.environment) IN
        IF env.kind = "Panic"
        THEN /\ status' = "panicked"
             /\ options' = <<>>
             /\ lastCall' = [NoCall EXCEPT !.op = "build", !.args = <<args>>,
                                           !.outcome = "panic"]
        ELSE /\ status' = "running"
             /\ options' = <<build(args, env.val)>>
             /\ lastCall' = [NoCall EXCEPT !.op = "build", !.args = <<args>>,
                                           !.outcome = "ok"]
    /\ UNCHANGED <<cloned, file, writes, envVars, concVars>>

\* #[derive(Clone)]: a field-by-field copy of &self
CloneOptions ==
    /\ status = "running"
    /\ cloned' = options
    /\ lastCall' = [NoCall EXCEPT !.op = "clone", !.args = lastCall.args,
                                  !.outcome = "ok"]
    /\ UNCHANGED <<status, options, file, writes, envVars, concVars>>

\* Result::expect: the value on Ok, a panic on Err
expect(ok) == IF ok THEN "ok" ELSE "panic"

\* What write_to_file does to the file and to the process.
WriteEffects(io) ==
    LET contents == format_options(options[1])
        ok == IoSucceeded(contents, io)
    IN  /\ file' = fs_write(file, contents, io)
        /\ status' = IF expect(ok) = "ok" THEN "running" ELSE "panicked"
        /\ writes' = IF expect(ok) = "ok" THEN writes + 1 ELSE writes
        /\ lastCall' = [op |-> "write", args |-> lastCall.args, outcome |-> expect(ok),
                        ioFailed |-> ~ok, before |-> file]

\* A write_to_file that resets a field of the value it serializes.
write_to_file_resetting(io) ==
    /\ WriteEffects(io)
    /\ options' = <<[options[1] EXCEPT !.reload_port = 0]>>
    /\ UNCHANGED <<cloned, envVars, concVars>>

\* RenderOptions::write_to_file(&self)
write_to_file(io) ==
    /\ WriteEffects(io)
    /\ UNCHANGED <<options, cloned, envVars, concVars>>

WriteToFile ==
    /\ status = "running"
    /\ writes < MaxWrites
    /\ \E io \in IoOutcomes(format_options(options[1])) : write_to_file(io)

Next == Build \/ CloneOptions \/ WriteToFile

Spec == Init /\ [][Next]_vars

----------------------------------------------------------------------------
(* SpecEnv: each conversion applied to a lookup result drawn at the start. *)
(* from_str and From<&str> take the string of a successful lookup.         *)

InitEnv ==
    /\ envInput \in LookupResults /\ envCall = "none" /\ envResult = NoResult
    /\ file = NoFile /\ ProgIdle /\ ConcIdle

CallFromStr ==
    /\ envResult.kind # "Panic"
    /\ envInput.kind = "Ok"
    /\ envCall' = "from_str"
    /\ envResult' = from_str(envInput.val)
    /\ UNCHANGED <<envInput, file, progVars, concVars>>

CallFromRefStr ==
    /\ envResult.kind # "Panic"
    /\ envInput.kind = "Ok"
    /\ envCall' = "from_ref_str"
    /\ envResult' = from_ref_str(envInput.val)
    /\ UNCHANGED <<envInput, file, progVars, concVars>>

CallFromVarResult ==
    /\ envResult.kind # "Panic"
    /\ envCall' = "from_var_result"
    /\ envResult' = from_var_result(envInput)
    /\ UNCHANGED <<envInput, file, progVars, concVars>>

NextEnv == CallFromStr \/ CallFromRefStr \/ CallFromVarResult

SpecEnv == InitEnv /\ [][NextEnv]_vars

----------------------------------------------------------------------------
(* SpecConc: NumWriters threads or processes, each calling write_to_file   *)
(* once on its own value, with no lock: File::create (truncate) and the    *)
(* write from offset 0 are separate steps that interleave freely.          *)

Writers == 1..NumWriters

ConcValues ==
    { [pkg_path |-> "/pkg/app", environment |-> e,
       socket_address |-> socket_address_default, reload_port |-> p] :
          e \in RustEnv, p \in {reload_port_default, 80} }

InitConc ==
    /\ pc = [w \in Writers |-> "start"]
    /\ writerOptions \in [Writers -> ConcValues]
    /\ lastWriter = 0
    /\ file \in PriorFiles
    /\ ProgIdle /\ EnvIdle

\* File::create inside fs::write
ConcOpen(w) ==
    /\ pc[w] = "start"
    /\ file' = truncate(file)
    /\ pc' = [pc EXCEPT ![w] = "opened"]
    /\ UNCHANGED <<writerOptions, lastWriter, progVars, envVars>>

\* write_all inside fs::write, through the writer's own descriptor (offset 0)
ConcWrite(w) ==
    /\ pc[w] = "opened"
    /\ file' = [exists |-> TRUE,
                data |-> write_at_start(file.data, format_options(writerOptions[w]))]
    /\ pc' = [pc EXCEPT ![w] = "done"]
    /\ lastWriter' = w
    /\ UNCHANGED <<writerOptions, progVars, envVars>>

NextConc == \E w \in Writers : ConcOpen(w) \/ ConcWrite(w)

SpecConc == InitConc /\ [][NextConc]_vars

----------------------------------------------------------------------------
(* Properties *)

\* The text s cut at its line feeds (the text after the last one included).
Lines(s) ==
    LET B == {0} \cup {i \in 1..Len(s) : CharAt(s, i) = "\n"} \cup {Len(s) + 1}
        nth(k) == CHOOSE b \in B : Cardinality({c \in B : c < b}) = k - 1
    IN  [k \in 1..(Cardinality(B) - 1) |-> SubSeq(s, nth(k) + 1, nth(k + 1) - 1)]

IsPrefix(p, s) == Len(p) <= Len(s) /\ SubSeq(s, 1, Len(p)) = p

DevSpellings == Spellings("dev", 3) \cup Spellings("development", 11)
ProdSpellings == Spellings("prod", 4) \cup Spellings("production", 10)

Converted == envCall \in {"from_str", "from_ref_str", "from_var_result"}

\* C1 (as claimed; SpecEnv): a string that is not dev, development, prod or
\* production after lower-casing is converted to Production by each of the three
\* conversions, none of which fails or panics.
C1_UnrecognizedIsProduction ==
    (Converted /\ envInput.kind = "Ok" /\ to_lowercase(envInput.val) \notin Recognized)
        => (envResult.kind \in {"Ok", "Value"} /\ envResult.val = "PROD")

\* C2 (SpecEnv): every upper/lower-case spelling of dev or development is converted
\* to Development and every spelling of prod or production to Production, by
\* from_str, From<&str> and From<&Result<String, VarError>> alike, without a panic.
C2_RecognizedSpellings ==
    (Converted /\ envInput.kind = "Ok")
        => /\ envInput.val \in DevSpellings
                => (envResult.kind \in {"Ok", "Value"} /\ envResult.val = "DEV")
           /\ envInput.val \in ProdSpellings
                => (envResult.kind \in {"Ok", "Value"} /\ envResult.val = "PROD")

\* C2's case: a mixed-case spelling of development went through the lookup
\* conversion and came out as Development.
C2_Witness ==
    /\ envCall = "from_var_result"
    /\ envInput = Ok("DeVeLoPmEnT")
    /\ envResult = Value("DEV")

\* C3 (as claimed; Spec): when the file write fails, write_to_file hands a failure
\* value back to its caller, and the process is still running afterwards.
C3_WriteFailureReturned ==
    (lastCall.op = "write" /\ lastCall.ioFailed)
        => (lastCall.outcome = "err" /\ status = "running")

\* C4 (Spec): the built value carries the bundle path that was supplied; a field
\* that was not supplied has its default (Production, 127.0.0.1:3000, 3001); a
\* field that was supplied has the supplied value, and no other field moves.
C4_BuilderDefaults ==
    (options # <<>> /\ lastCall.args # <<>>)
        => LET a == lastCall.args[1]
               o == options[1]
           IN  /\ o.pkg_path = a.pkg_path
               /\ a.environment = <<>> => o.environment = "PROD"
               /\ (a.environment # <<>> /\ a.environment[1].kind = "RustEnv")
                    => o.environment = a.environment[1].val
               /\ o.environment \in {"PROD", "DEV"}
               /\ a.socket_address = <<>>
                    => o.socket_address = [ip |-> <<127, 0, 0, 1>>, port |-> 3000]
               /\ a.socket_address # <<>> => o.socket_address = a.socket_address[1]
               /\ a.reload_port = <<>> => o.reload_port = 3001
               /\ a.reload_port # <<>> => o.reload_port = a.reload_port[1]

\* C4's case: a build with only the bundle path supplied has just returned.
C4_Witness ==
    /\ lastCall.op = "build"
    /\ lastCall.outcome = "ok"
    /\ lastCall.args[1].environment = <<>>
    /\ lastCall.args[1].socket_address = <<>>
    /\ lastCall.args[1].reload_port = <<>>
    /\ options # <<>>

\* C5 (SpecEnv): converting a failed lookup, whatever the VarError, gives
\* Production and does not panic.
C5_FailedLookupIsProduction ==
    (envCall = "from_var_result" /\ envInput.kind = "Err") => envResult = Value("PROD")

\* C5's case: a lookup that failed with NotUnicode was converted.
C5_Witness ==
    /\ envCall = "from_var_result"
    /\ envInput = Err("NotUnicode")
    /\ envResult = Value("PROD")

\* C6 (Spec): after a write_to_file that returned, whatever the file held before,
\* the file exists and holds exactly the header line, the RenderOptions block with
\* pkg-path, environment, socket-address and reload-port in that order carrying
\* the value's fields, and the closing brace; nothing of the old content is left.
C6_SnapshotContent ==
    (lastCall.op = "write" /\ lastCall.outcome = "ok")
        => LET o == options[1] IN
           /\ file.exists
           /\ Lines(file.data) =
                <<Header,
                  "RenderOptions {",
                  "    pkg-path \"" \o o.pkg_path \o "\"",
                  "    environment \"" \o (IF o.environment = "DEV" THEN "DEV" ELSE "PROD")
                      \o "\"",
                  "    socket-address \"" \o DebugSocketAddr(o.socket_address) \o "\"",
                  "    reload-port " \o Decimal(o.reload_port),
                  "}",
                  "">>

\* C6's case: a write returned over a file that held more than the new snapshot.
C6_Witness ==
    /\ lastCall.op = "write"
    /\ lastCall.outcome = "ok"
    /\ lastCall.before.exists
    /\ Len(lastCall.before.data) > Len(file.data)

\* C7 (Spec): the second and every later write_to_file call on the same value
\* leaves the file with the very content the call before it left.
C7_Idempotent ==
    (lastCall.op = "write" /\ lastCall.outcome = "ok" /\ writes >= 2)
        => file.data = lastCall.before.data

\* C7's case: a second write returned and the file holds a snapshot.
C7_Witness ==
    /\ lastCall.op = "write"
    /\ lastCall.outcome = "ok"
    /\ writes = 2
    /\ Len(file.data) > Len(Header)

AllDone == lastWriter # 0 /\ \A w \in Writers : pc[w] = "done"

\* C8 (as claimed; SpecConc): once every concurrent call has completed, the file
\* holds in full the snapshot of the writer that wrote last and nothing else.
C8_LastWriterWins ==
    AllDone => file.data = format_options(writerOptions[lastWriter])

\* C8 (amended; SpecConc): once every concurrent call has completed, the file
\* starts with the full snapshot of the writer that wrote last; it is exactly that
\* snapshot whenever no other writer's snapshot is longer.
C8_LastWriterPrefix ==
    AllDone
        => LET last == format_options(writerOptions[lastWriter]) IN
           /\ IsPrefix(last, file.data)
           /\ (\A w \in Writers : Len(format_options(writerOptions[w])) <= Len(last))
                => file.data = last

\* C8's case: all calls completed and the file is longer than the last writer's
\* snapshot: the tail is another writer's.
C8_Witness ==
    /\ AllDone
    /\ Len(file.data) > Len(format_options(writerOptions[lastWriter]))

\* C9 (Spec): no step changes a RenderOptions value that exists: not the built
\* one, not its clone; write_to_file, returning or panicking, leaves both as they are.
C9_Immutable ==
    [][/\ options # <<>> => options' = options
       /\ cloned # <<>> => cloned' = cloned]_vars

\* C9's case: the value has been written, cloned, and a later write has failed.
C9_Witness ==
    /\ options # <<>>
    /\ cloned = options
    /\ writes >= 1
    /\ lastCall.op = "write"
    /\ lastCall.ioFailed

E2EArgs ==
    [pkg_path |-> "/pkg/app",
     environment |-> <<[kind |-> "Str", val |-> "development"]>>,
     socket_address |-> <<>>,
     reload_port |-> <<>>]

\* C10 (Spec): the value built from "/pkg/app", "development" and the defaults has
\* environment Development, and after write_to_file returns the file's pkg-path
\* line is "/pkg/app" in quotes, its environment line shows DEV, its
\* socket-address line 127.0.0.1:3000 and its reload-port line 3001.
C10_EndToEnd ==
    (lastCall.args = <<E2EArgs>> /\ lastCall.outcome = "ok")
        => /\ options[1].environment = "DEV"
           /\ lastCall.op = "write"
                => LET L == Lines(file.data) IN
                   /\ L[3] = "    pkg-path \"/pkg/app\""
                   /\ L[4] = "    environment \"DEV\""
                   /\ L[5] = "    socket-address \"127.0.0.1:3000\""
                   /\ L[6] = "    reload-port 3001"

\* C10's case: the end-to-end value was built and its snapshot written.
C10_Witness ==
    /\ lastCall.args = <<E2EArgs>>
    /\ lastCall.op = "write"
    /\ lastCall.outcome = "ok"
    /\ file.exists

====
